---- MODULE Spec2Model ----
(***************************************************************************)
(* The authentication / confirmation workflow of AuthController.js:        *)
(* register, login, verifyConfirm and resendConfirmOtp, run as             *)
(* interleaved request handlers over one shared User Store.                *)
(*                                                                         *)
(* Every handler is cut at its I/O boundaries (store query, store write,   *)
(* mail send, bcrypt callback): the code between two boundaries runs to    *)
(* completion on the event loop and is one action here.                    *)
(***************************************************************************)
EXTENDS Integers, Sequences, FiniteSets, TLC

\* Number of requests submitted in one behaviour.
MaxReq == 3
\* Number of administrative changes of a record's status in one behaviour.
MaxAdminOps == 1
\* Number of requests submitted in one behaviour about a single account.
MaxReqOne == 4

\* Request inputs.  "bad" is not an email address; "abc" is a password
\* shorter than the 6 characters register asks for; "" is an empty first name.
Emails == {"a@x.io", "b@x.io", "bad"}
Passwords == {"secret1", "abc"}
\* The request bodies submitted: the valid ones, and for each field one body
\* in which only that field is invalid.
RegisterBodies ==
    {<<"Ann", e, "secret1">> : e \in {"a@x.io", "b@x.io"}}
        \cup {<<"", "a@x.io", "secret1">>, <<"Ann", "bad", "secret1">>, <<"Ann", "a@x.io", "abc">>}
LoginBodies ==
    {<<e, pw>> : e \in {"a@x.io", "b@x.io"}, pw \in Passwords} \cup {<<"bad", "secret1">>}
VerifyBodies ==
    {<<e, otp>> : e \in {"a@x.io", "b@x.io"}, otp \in {1234, 5678}}
        \cup {<<"bad", 1234>>, <<"a@x.io", 0>>}
ResendBodies == {<<e>> : e \in Emails}
\* The valid bodies that name the one address "a@x.io".
RegisterBodiesOne == {<<"Ann", "a@x.io", "secret1">>}
LoginBodiesOne == {<<"a@x.io", "secret1">>}
VerifyBodiesOne == {<<"a@x.io", otp>> : otp \in {1234, 5678}}
ResendBodiesOne == {<<"a@x.io">>}
\* The 4-digit codes randomNumber(4) can return.
Otps == {1234, 5678}
NoOtp == 0

\* bcrypt.hash: a one-way image of the password; NoHash is the undefined
\* hash the callback receives with err set.
NoHash == <<>>
Hash(pw) == <<"bcrypt", pw>>
\* bcrypt.compare(password, user.password, (err, same) => ...): err is
\* ignored by the caller, same is undefined (falsy) for an undefined hash.
Compare(pw, hash) == hash # NoHash /\ hash = Hash(pw)

\* jwt.sign(jwtPayload, secret, jwtData)
NoToken == <<>>
Sign(u) == <<"jwt", u.id, u.firstName, u.email>>

\* express-validator chains: the messages of the validators that fail (every
\* validator of a chain runs; validationResult collects them all).
IsEmail(e) == e \in {"a@x.io", "b@x.io"}
IsAlphanumeric(s) == s \in {"Ann"}
If(cond, msg) == IF cond THEN {msg} ELSE {}
EmailErrors(e) ==
    If(Len(e) < 1, "Email must be specified.")
        \cup If(~IsEmail(e), "Email must be a valid email address.")
\* taken: the custom validator's findOne found a user.
RegisterErrors(fn, e, pw, taken) ==
    If(Len(fn) < 1, "First name must be specified.")
        \cup If(~IsAlphanumeric(fn), "First name has non-alphanumeric characters.")
        \cup EmailErrors(e)
        \cup If(taken, "E-mail already in use")
        \cup If(Len(pw) < 6, "Password must be 6 characters or greater.")
LoginErrors(e, pw) == EmailErrors(e) \cup If(Len(pw) < 1, "Password must be specified.")
VerifyErrors(e, otp) == EmailErrors(e) \cup If(otp = NoOtp, "OTP must be specified.")
ResendErrors(e) == EmailErrors(e)

\* apiResponse.* envelopes
NoResp == [type |-> "none", msg |-> "", token |-> NoToken, errors |-> {}]
successResponse(msg) == [type |-> "success", msg |-> msg, token |-> NoToken, errors |-> {}]
successResponseWithData(msg, tok) == [type |-> "success", msg |-> msg, token |-> tok, errors |-> {}]
validationErrorWithData(msg, errors) ==
    [type |-> "validationError", msg |-> msg, token |-> NoToken, errors |-> errors]
unauthorizedResponse(msg) == [type |-> "unauthorized", msg |-> msg, token |-> NoToken, errors |-> {}]
errorResponse(msg) == [type |-> "error", msg |-> msg, token |-> NoToken, errors |-> {}]

VARIABLES
    users,      \* the User Store: a sequence of records, _id = index
    reqs,       \* the requests submitted so far, each with its handler's state
    outbox,     \* the confirmation mails delivered, in order: <<to, otp>>
    adminOps    \* administrative status changes made so far

vars == <<users, reqs, outbox, adminOps>>

\* A document as a handler holds it after findOne (id = 0: null).
NoUser == [id |-> 0, firstName |-> "", email |-> "", password |-> NoHash,
           isConfirmed |-> FALSE, confirmOTP |-> NoOtp, status |-> FALSE]
Doc(i) == [id |-> i, firstName |-> users[i].firstName, email |-> users[i].email,
           password |-> users[i].password, isConfirmed |-> users[i].isConfirmed,
           confirmOTP |-> users[i].confirmOTP, status |-> users[i].status]

\* UserModel.findOne({ email: e }): the first record holding e, or null.
Matching(e) == {i \in 1..Len(users) : users[i].email = e}
Min(S) == CHOOSE m \in S : \A n \in S : m <= n
findOne(e) == IF Matching(e) = {} THEN NoUser ELSE Doc(Min(Matching(e)))

\* new UserModel({firstName, lastName, email, password, confirmOTP}): the
\* schema's defaults fill isConfirmed (false) and status (true).
NewUser(fn, e, hash, otp) ==
    [firstName |-> fn, email |-> e, password |-> hash,
     isConfirmed |-> FALSE, confirmOTP |-> otp, status |-> TRUE]

Responded(q) == q.resp.type # "none"
\* The requests that had received their response when a new one is submitted.
Answered == {i \in 1..Len(reqs) : Responded(reqs[i])}

\* A request: its body (firstName, email, password, otp: the fields its
\* route reads), its handler's position and locals (user: the document read;
\* newOtp: the code generated), and what it has done so far.
NewReq(kind, fn, e, pw, otp) ==
    [kind |-> kind, firstName |-> fn, email |-> e, password |-> pw, otp |-> otp,
     pc |-> "start", user |-> NoUser, newOtp |-> NoOtp, resp |-> NoResp, nresp |-> 0,
     sends |-> 0, created |-> 0, writes |-> 0, seen |-> Answered]

\* res.json(...): the first call answers the request; later calls on the
\* same res are counted and do not replace what was sent.
Send(q, resp) == [q EXCEPT !.resp = IF q.nresp = 0 THEN resp ELSE q.resp,
                           !.nresp = q.nresp + 1]
\* The handler's last callback has returned: its locals are gone.
End(q) == [q EXCEPT !.pc = "done", !.user = NoUser]
\* A promise rejected with no handler attached: nothing runs any more.
Hang(q) == [q EXCEPT !.pc = "hung", !.user = NoUser, !.newOtp = NoOtp]
Fail(q, resp) == [End(Send(q, resp)) EXCEPT !.newOtp = NoOtp]

Init ==
    /\ users = <<>>
    /\ reqs = <<>>
    /\ outbox = <<>>
    /\ adminOps = 0

--------------------------------------------------------------------------
\* register (AuthController.js 28-101)

SubmitRegisterFrom(bodies, max) ==
    /\ Len(reqs) < max
    /\ \E b \in bodies :
         reqs' = Append(reqs, NewReq("register", b[1], b[2], b[3], NoOtp))
    /\ UNCHANGED <<users, outbox, adminOps>>

SubmitRegister == SubmitRegisterFrom(RegisterBodies, MaxReq)
SubmitRegisterOne == SubmitRegisterFrom(RegisterBodiesOne, MaxReqOne)

\* A register that goes on to hash and mail without looking at the
\* validation result.
RegisterValidatedIgnoresErrors(q, errors, otp) ==
    [q EXCEPT !.newOtp = otp, !.sends = @ + 1, !.pc = "mail"]

\* The validation chain with its custom validator, validationResult, and on
\* no error bcrypt.hash's callback up to the call of mailer.send (the hash
\* and the otp touch nothing shared).
RegisterValidated(q, errors, otp) ==
    IF errors # {}
    THEN Fail(q, validationErrorWithData("Validation Error.", errors))
    ELSE [q EXCEPT !.newOtp = otp, !.sends = @ + 1, !.pc = "mail"]

RegisterValidate(r) ==
    /\ reqs[r].kind = "register" /\ reqs[r].pc = "start"
    /\ \E otp \in Otps :
         reqs' = [reqs EXCEPT ![r] =
                    RegisterValidated(@, RegisterErrors(@.firstName, @.email, @.password,
                                                        findOne(@.email).id # 0), otp)]
    /\ UNCHANGED <<users, outbox, adminOps>>

\* The custom validator's findOne rejects: the email field fails with the
\* store's error as its message.
RegisterValidateStoreError(r) ==
    /\ reqs[r].kind = "register" /\ reqs[r].pc = "start"
    /\ reqs' = [reqs EXCEPT ![r] =
                 Fail(@, validationErrorWithData("Validation Error.",
                         RegisterErrors(@.firstName, @.email, @.password, FALSE)
                             \cup {"store error"}))]
    /\ UNCHANGED <<users, outbox, adminOps>>

\* A register whose mail carries another code than the user document.
RegisterMailSentOtherOtp(r) ==
    /\ reqs[r].kind = "register" /\ reqs[r].pc = "mail"
    /\ \E otp \in Otps \ {reqs[r].newOtp} :
         outbox' = Append(outbox, <<reqs[r].email, otp>>)
    /\ reqs' = [reqs EXCEPT ![r] = [@ EXCEPT !.pc = "save"]]
    /\ UNCHANGED <<users, adminOps>>

\* mailer.send resolved: .then(() => user.save(...))
RegisterMailSent(r) ==
    /\ reqs[r].kind = "register" /\ reqs[r].pc = "mail"
    /\ outbox' = Append(outbox, <<reqs[r].email, reqs[r].newOtp>>)
    /\ reqs' = [reqs EXCEPT ![r] = [@ EXCEPT !.pc = "save"]]
    /\ UNCHANGED <<users, adminOps>>

\* A register that saves the user whether or not the mail was sent.
RegisterMailFailedSaves(r) ==
    /\ reqs[r].kind = "register" /\ reqs[r].pc = "mail"
    /\ users' = Append(users, NewUser(reqs[r].firstName, reqs[r].email,
                                      Hash(reqs[r].password), reqs[r].newOtp))
    /\ reqs' = [reqs EXCEPT ![r] =
                 Fail([@ EXCEPT !.created = Len(users) + 1, !.writes = @ + 1],
                      errorResponse("mail error"))]
    /\ UNCHANGED <<outbox, adminOps>>

\* mailer.send rejected: .catch(err => errorResponse)
RegisterMailFailed(r) ==
    /\ reqs[r].kind = "register" /\ reqs[r].pc = "mail"
    /\ reqs' = [reqs EXCEPT ![r] = Fail(@, errorResponse("mail error"))]
    /\ UNCHANGED <<users, outbox, adminOps>>

\* user.save of a new document: the store inserts it.
Insert(q) == Append(users, NewUser(q.firstName, q.email, Hash(q.password), q.newOtp))

RegisterSave(r) ==
    /\ reqs[r].kind = "register" /\ reqs[r].pc = "save"
    /\ users' = Insert(reqs[r])
    /\ reqs' = [reqs EXCEPT ![r] = [@ EXCEPT !.created = Len(users) + 1,
                                               !.writes = @ + 1, !.pc = "saved"]]
    /\ UNCHANGED <<outbox, adminOps>>

\* save's callback with err: errorResponse
RegisterSaveFailed(r) ==
    /\ reqs[r].kind = "register" /\ reqs[r].pc = "save"
    /\ reqs' = [reqs EXCEPT ![r] = Fail(@, errorResponse("store error"))]
    /\ UNCHANGED <<users, outbox, adminOps>>

\* save's callback without err
RegisterSaved(r) ==
    /\ reqs[r].kind = "register" /\ reqs[r].pc = "saved"
    /\ reqs' = [reqs EXCEPT ![r] =
                 End(Send(@, successResponseWithData("Registration Success.", NoToken)))]
    /\ UNCHANGED <<users, outbox, adminOps>>

--------------------------------------------------------------------------
\* login (AuthController.js 111-165)

SubmitLoginFrom(bodies, max) ==
    /\ Len(reqs) < max
    /\ \E b \in bodies :
         reqs' = Append(reqs, NewReq("login", "", b[1], b[2], NoOtp))
    /\ UNCHANGED <<users, outbox, adminOps>>

SubmitLogin == SubmitLoginFrom(LoginBodies, MaxReq)
SubmitLoginOne == SubmitLoginFrom(LoginBodiesOne, MaxReqOne)

\* validationResult, then findOne(...).then(user => ...) up to bcrypt.compare
LoginFound(q, user) ==
    IF LoginErrors(q.email, q.password) # {}
    THEN Fail(q, validationErrorWithData("Validation Error.", LoginErrors(q.email, q.password)))
    ELSE IF user.id # 0
    THEN [q EXCEPT !.user = user, !.pc = "compare"]
    ELSE Fail(q, unauthorizedResponse("Email or Password wrong."))

LoginFind(r) ==
    /\ reqs[r].kind = "login" /\ reqs[r].pc = "start"
    /\ reqs' = [reqs EXCEPT ![r] = LoginFound(@, findOne(@.email))]
    /\ UNCHANGED <<users, outbox, adminOps>>

\* findOne rejects: the .then has no rejection handler and the try/catch
\* has already been left.
LoginFindFailed(r) ==
    /\ reqs[r].kind = "login" /\ reqs[r].pc = "start"
    /\ LoginErrors(reqs[r].email, reqs[r].password) = {}
    /\ reqs' = [reqs EXCEPT ![r] = Hang(@)]
    /\ UNCHANGED <<users, outbox, adminOps>>

\* A login that looks at the account's state before the password.
LoginOutcomeStateFirst(user, same) ==
    IF ~user.isConfirmed
    THEN unauthorizedResponse("Account is not confirmed. Please confirm your account.")
    ELSE IF ~user.status
    THEN unauthorizedResponse("Account is not active. Please contact admin.")
    ELSE IF same
    THEN successResponseWithData("Login Success.", Sign(user))
    ELSE unauthorizedResponse("Email or Password wrong.")
\* A login that does not look at isConfirmed.
LoginOutcomeNoConfirmation(user, same) ==
    IF same
    THEN IF user.status
         THEN successResponseWithData("Login Success.", Sign(user))
         ELSE unauthorizedResponse("Account is not active. Please contact admin.")
    ELSE unauthorizedResponse("Email or Password wrong.")

\* bcrypt.compare's callback
LoginOutcome(user, same) ==
    IF same
    THEN IF user.isConfirmed
         THEN IF user.status
              THEN successResponseWithData("Login Success.", Sign(user))
              ELSE unauthorizedResponse("Account is not active. Please contact admin.")
         ELSE unauthorizedResponse("Account is not confirmed. Please confirm your account.")
    ELSE unauthorizedResponse("Email or Password wrong.")

LoginCompare(r) ==
    /\ reqs[r].kind = "login" /\ reqs[r].pc = "compare"
    /\ reqs' = [reqs EXCEPT ![r] =
                 End(Send(@, LoginOutcome(@.user, Compare(@.password, @.user.password))))]
    /\ UNCHANGED <<users, outbox, adminOps>>

--------------------------------------------------------------------------
\* verifyConfirm (AuthController.js 175-216)

SubmitVerifyFrom(bodies, max) ==
    /\ Len(reqs) < max
    /\ \E b \in bodies :
         reqs' = Append(reqs, NewReq("verify", "", b[1], "", b[2]))
    /\ UNCHANGED <<users, outbox, adminOps>>

SubmitVerify == SubmitVerifyFrom(VerifyBodies, MaxReq)
SubmitVerifyOne == SubmitVerifyFrom(VerifyBodiesOne, MaxReqOne)

\* A verification that compares the otp before it looks at isConfirmed.
VerifyOutcomeOtpFirst(user, otp) ==
    IF user.id # 0
    THEN IF user.confirmOTP = otp
         THEN IF ~user.isConfirmed
              THEN successResponse("Account confirmed success.")
              ELSE unauthorizedResponse("Account already confirmed.")
         ELSE unauthorizedResponse("Otp does not match")
    ELSE unauthorizedResponse("Specified email not found.")

VerifyOutcome(user, otp) ==
    IF user.id # 0
    THEN IF ~user.isConfirmed
         THEN IF user.confirmOTP = otp
              THEN successResponse("Account confirmed success.")
              ELSE unauthorizedResponse("Otp does not match")
         ELSE unauthorizedResponse("Account already confirmed.")
    ELSE unauthorizedResponse("Specified email not found.")

\* validationResult, then findOne(query).then(user => ...): on a match the
\* update is issued and the success response sent without waiting for it.
VerifyFound(q, user) ==
    IF VerifyErrors(q.email, q.otp) # {}
    THEN Fail(q, validationErrorWithData("Validation Error.", VerifyErrors(q.email, q.otp)))
    ELSE IF VerifyOutcome(user, q.otp).type = "success"
    THEN [Send(q, VerifyOutcome(user, q.otp)) EXCEPT !.pc = "update"]
    ELSE Fail(q, VerifyOutcome(user, q.otp))

VerifyFind(r) ==
    /\ reqs[r].kind = "verify" /\ reqs[r].pc = "start"
    /\ reqs' = [reqs EXCEPT ![r] = VerifyFound(@, findOne(@.email))]
    /\ UNCHANGED <<users, outbox, adminOps>>

VerifyFindFailed(r) ==
    /\ reqs[r].kind = "verify" /\ reqs[r].pc = "start"
    /\ VerifyErrors(reqs[r].email, reqs[r].otp) = {}
    /\ reqs' = [reqs EXCEPT ![r] = Hang(@)]
    /\ UNCHANGED <<users, outbox, adminOps>>

\* An update whose document replaces the record instead of setting fields.
ConfirmedReplaces(u) ==
    [u EXCEPT !.isConfirmed = TRUE, !.confirmOTP = NoOtp,
              !.firstName = "", !.password = NoHash]

\* UserModel.findOneAndUpdate(query, {isConfirmed: 1, confirmOTP: null}): the
\* store applies it to the first record the query matches.
Confirmed(u) == [u EXCEPT !.isConfirmed = TRUE, !.confirmOTP = NoOtp]
findOneAndUpdate(e) ==
    IF Matching(e) = {} THEN users
    ELSE [users EXCEPT ![Min(Matching(e))] = Confirmed(@)]

VerifyUpdate(r) ==
    /\ reqs[r].kind = "verify" /\ reqs[r].pc = "update"
    /\ users' = findOneAndUpdate(reqs[r].email)
    /\ reqs' = [reqs EXCEPT ![r] = End([@ EXCEPT !.writes = @ + 1])]
    /\ UNCHANGED <<outbox, adminOps>>

\* The update rejects: .catch(err => errorResponse(res, err)), on a res
\* whose response has been sent.
VerifyUpdateFailed(r) ==
    /\ reqs[r].kind = "verify" /\ reqs[r].pc = "update"
    /\ reqs' = [reqs EXCEPT ![r] = End(Send(@, errorResponse("store error")))]
    /\ UNCHANGED <<users, outbox, adminOps>>

--------------------------------------------------------------------------
\* resendConfirmOtp (AuthController.js 225-270)

SubmitResendFrom(bodies, max) ==
    /\ Len(reqs) < max
    /\ \E b \in bodies :
         reqs' = Append(reqs, NewReq("resend", "", b[1], "", NoOtp))
    /\ UNCHANGED <<users, outbox, adminOps>>

SubmitResend == SubmitResendFrom(ResendBodies, MaxReq)
SubmitResendOne == SubmitResendFrom(ResendBodiesOne, MaxReqOne)

\* validationResult, then findOne(query).then(user => ...) up to the call of
\* mailer.send
\* A resend that generates and mails the code before it looks at isConfirmed.
ResendFoundMailsFirst(q, user, otp) ==
    IF ResendErrors(q.email) # {}
    THEN Fail(q, validationErrorWithData("Validation Error.", ResendErrors(q.email)))
    ELSE IF user.id # 0
    THEN IF ~user.isConfirmed
         THEN [q EXCEPT !.user = user, !.newOtp = otp, !.sends = @ + 1, !.pc = "mail"]
         ELSE Fail([q EXCEPT !.sends = @ + 1],
                   unauthorizedResponse("Account already confirmed."))
    ELSE Fail(q, unauthorizedResponse("Specified email not found."))

ResendFound(q, user, otp) ==
    IF ResendErrors(q.email) # {}
    THEN Fail(q, validationErrorWithData("Validation Error.", ResendErrors(q.email)))
    ELSE IF user.id # 0
    THEN IF ~user.isConfirmed
         THEN [q EXCEPT !.user = user, !.newOtp = otp, !.sends = @ + 1, !.pc = "mail"]
         ELSE Fail(q, unauthorizedResponse("Account already confirmed."))
    ELSE Fail(q, unauthorizedResponse("Specified email not found."))

ResendFind(r) ==
    /\ reqs[r].kind = "resend" /\ reqs[r].pc = "start"
    /\ \E otp \in Otps : reqs' = [reqs EXCEPT ![r] = ResendFound(@, findOne(@.email), otp)]
    /\ UNCHANGED <<users, outbox, adminOps>>

ResendFindFailed(r) ==
    /\ reqs[r].kind = "resend" /\ reqs[r].pc = "start"
    /\ ResendErrors(reqs[r].email) = {}
    /\ reqs' = [reqs EXCEPT ![r] = Hang(@)]
    /\ UNCHANGED <<users, outbox, adminOps>>

\* mailer.send resolved: user.isConfirmed = 0; user.confirmOTP = otp; save
ResendMailSent(r) ==
    /\ reqs[r].kind = "resend" /\ reqs[r].pc = "mail"
    /\ outbox' = Append(outbox, <<reqs[r].email, reqs[r].newOtp>>)
    /\ reqs' = [reqs EXCEPT ![r] =
                 [@ EXCEPT !.user.isConfirmed = FALSE, !.user.confirmOTP = reqs[r].newOtp,
                           !.pc = "save"]]
    /\ UNCHANGED <<users, adminOps>>

\* mailer.send rejected: the chain has no .catch
\* A resend that stores the new code although its mail was not sent.
ResendMailFailedSaves(r) ==
    /\ reqs[r].kind = "resend" /\ reqs[r].pc = "mail"
    /\ users' = [users EXCEPT ![reqs[r].user.id] = [@ EXCEPT !.confirmOTP = reqs[r].newOtp]]
    /\ reqs' = [reqs EXCEPT ![r] = [Hang(@) EXCEPT !.writes = @ + 1]]
    /\ UNCHANGED <<outbox, adminOps>>

ResendMailFailed(r) ==
    /\ reqs[r].kind = "resend" /\ reqs[r].pc = "mail"
    /\ reqs' = [reqs EXCEPT ![r] = Hang(@)]
    /\ UNCHANGED <<users, outbox, adminOps>>

\* user.save of the document read: the store sets, on the record with the
\* document's _id, the fields the handler assigned.  Whether a field assigned
\* the value the document already held (isConfirmed) is among them is the
\* schema's and the store client's matter: both outcomes are taken.
Saved(u, doc, flag) ==
    [u EXCEPT !.confirmOTP = doc.confirmOTP,
              !.isConfirmed = IF flag THEN doc.isConfirmed ELSE @]

ResendSave(r) ==
    /\ reqs[r].kind = "resend" /\ reqs[r].pc = "save"
    /\ \E flag \in BOOLEAN :
         users' = [users EXCEPT ![reqs[r].user.id] = Saved(@, reqs[r].user, flag)]
    /\ reqs' = [reqs EXCEPT ![r] = [@ EXCEPT !.writes = @ + 1, !.pc = "saved"]]
    /\ UNCHANGED <<outbox, adminOps>>

ResendSaveFailed(r) ==
    /\ reqs[r].kind = "resend" /\ reqs[r].pc = "save"
    /\ reqs' = [reqs EXCEPT ![r] = Fail(@, errorResponse("store error"))]
    /\ UNCHANGED <<users, outbox, adminOps>>

ResendSaved(r) ==
    /\ reqs[r].kind = "resend" /\ reqs[r].pc = "saved"
    /\ reqs' = [reqs EXCEPT ![r] = End(Send(@, successResponse("Confirm otp sent.")))]
    /\ UNCHANGED <<users, outbox, adminOps>>

--------------------------------------------------------------------------
\* status is set by an administrator, outside the four handlers.
AdminSetStatus ==
    /\ adminOps < MaxAdminOps
    /\ \E i \in 1..Len(users) :
         users' = [users EXCEPT ![i] = [@ EXCEPT !.status = ~@]]
    /\ adminOps' = adminOps + 1
    /\ UNCHANGED <<reqs, outbox>>

--------------------------------------------------------------------------

\* Any requests, with valid and invalid bodies, about two addresses; every
\* dependency (store, mailer) may fail.
Next ==
    \/ SubmitRegister
    \/ SubmitLogin
    \/ SubmitVerify
    \/ SubmitResend
    \/ AdminSetStatus
    \/ \E r \in 1..Len(reqs) : RegisterValidate(r)
    \/ \E r \in 1..Len(reqs) : RegisterValidateStoreError(r)
    \/ \E r \in 1..Len(reqs) : RegisterMailSent(r)
    \/ \E r \in 1..Len(reqs) : RegisterMailFailed(r)
    \/ \E r \in 1..Len(reqs) : RegisterSave(r)
    \/ \E r \in 1..Len(reqs) : RegisterSaveFailed(r)
    \/ \E r \in 1..Len(reqs) : RegisterSaved(r)
    \/ \E r \in 1..Len(reqs) : LoginFind(r)
    \/ \E r \in 1..Len(reqs) : LoginFindFailed(r)
    \/ \E r \in 1..Len(reqs) : LoginCompare(r)
    \/ \E r \in 1..Len(reqs) : VerifyFind(r)
    \/ \E r \in 1..Len(reqs) : VerifyFindFailed(r)
    \/ \E r \in 1..Len(reqs) : VerifyUpdate(r)
    \/ \E r \in 1..Len(reqs) : VerifyUpdateFailed(r)
    \/ \E r \in 1..Len(reqs) : ResendFind(r)
    \/ \E r \in 1..Len(reqs) : ResendFindFailed(r)
    \/ \E r \in 1..Len(reqs) : ResendMailSent(r)
    \/ \E r \in 1..Len(reqs) : ResendMailFailed(r)
    \/ \E r \in 1..Len(reqs) : ResendSave(r)
    \/ \E r \in 1..Len(reqs) : ResendSaveFailed(r)
    \/ \E r \in 1..Len(reqs) : ResendSaved(r)

Spec == Init /\ [][Next]_vars

\* More requests, all with valid bodies and about one address, in the runs
\* in which every dependency succeeds.
NextOne ==
    \/ SubmitRegisterOne
    \/ SubmitLoginOne
    \/ SubmitVerifyOne
    \/ SubmitResendOne
    \/ \E r \in 1..Len(reqs) : RegisterValidate(r)
    \/ \E r \in 1..Len(reqs) : RegisterMailSent(r)
    \/ \E r \in 1..Len(reqs) : RegisterSave(r)
    \/ \E r \in 1..Len(reqs) : RegisterSaved(r)
    \/ \E r \in 1..Len(reqs) : LoginFind(r)
    \/ \E r \in 1..Len(reqs) : LoginCompare(r)
    \/ \E r \in 1..Len(reqs) : VerifyFind(r)
    \/ \E r \in 1..Len(reqs) : VerifyUpdate(r)
    \/ \E r \in 1..Len(reqs) : ResendFind(r)
    \/ \E r \in 1..Len(reqs) : ResendMailSent(r)
    \/ \E r \in 1..Len(reqs) : ResendSave(r)
    \/ \E r \in 1..Len(reqs) : ResendSaved(r)

SpecOne == Init /\ [][NextOne]_vars

--------------------------------------------------------------------------
\* The requests of one kind, and what the claims say about them.
Reqs(kind) == {i \in 1..Len(reqs) : reqs[i].kind = kind}
Is(q, type, msg) == q.resp.type = type /\ q.resp.msg = msg
\* The store answered the request's queries (no "store error" outcome).
StoreAnswered(q) == q.resp.msg # "store error" /\ "store error" \notin q.resp.errors

\* C1: no two user records hold the same email, under any interleaving of
\* Register requests.
C1_UniqueEmail ==
    \A i, j \in 1..Len(users) : i # j => users[i].email # users[j].email

\* C2: a Register submitted after a Register for the same email was answered
\* with success ends with the validation error "E-mail already in use", has
\* sent no mail, and the store holds exactly one record for that email.
RegisteredBefore(q) ==
    \E p \in q.seen : /\ reqs[p].kind = "register"
                      /\ reqs[p].email = q.email
                      /\ reqs[p].resp.type = "success"
C2_SecondRegisterRejected ==
    \A r \in Reqs("register") :
        (RegisteredBefore(reqs[r]) /\ Responded(reqs[r]) /\ StoreAnswered(reqs[r]))
            => /\ reqs[r].resp.type = "validationError"
               /\ "E-mail already in use" \in reqs[r].resp.errors
               /\ reqs[r].sends = 0
               /\ Cardinality(Matching(reqs[r].email)) = 1

\* C3: every user record with isConfirmed = true has confirmOtp = null.
C3_ConfirmedHasNoOtp ==
    \A i \in 1..Len(users) : users[i].isConfirmed => users[i].confirmOTP = NoOtp

Answers(r) == ~Responded(reqs[r]) /\ Responded(reqs'[r])
\* The document the handler's decision rests on: the one findOne returns in
\* this step, or the one it returned before the handler suspended.
Read(r) == IF reqs[r].pc = "start" THEN findOne(reqs[r].email) ELSE reqs[r].user

\* C5: a Login that passes validation is decided in the order existence,
\* password match, confirmation, active status: no record and a non-matching
\* password both give unauthorized "Email or Password wrong." whatever
\* isConfirmed and status are; a matching password on an unconfirmed record
\* gives "Account is not confirmed" whatever status is; confirmed and inactive
\* gives "Account is not active"; only matching, confirmed and active gives
\* success with a token.
LoginExpected(u, pw, resp) ==
    CASE u.id = 0 -> resp = unauthorizedResponse("Email or Password wrong.")
      [] u.id # 0 /\ u.password # Hash(pw) ->
            resp = unauthorizedResponse("Email or Password wrong.")
      [] u.id # 0 /\ u.password = Hash(pw) /\ ~u.isConfirmed ->
            resp = unauthorizedResponse("Account is not confirmed. Please confirm your account.")
      [] u.id # 0 /\ u.password = Hash(pw) /\ u.isConfirmed /\ ~u.status ->
            resp = unauthorizedResponse("Account is not active. Please contact admin.")
      [] OTHER -> resp.type = "success" /\ resp.token # NoToken
C5_LoginCheckOrder ==
    [][\A r \in Reqs("login") :
          (Answers(r) /\ reqs'[r].resp.type # "validationError")
              => LoginExpected(Read(r), reqs[r].password, reqs'[r].resp)]_vars
C5_Witness ==
    \E r \in Reqs("login") :
        Is(reqs[r], "unauthorized", "Account is not active. Please contact admin.")

\* C6: a Login succeeds (a token is issued) only after a VerifyOtp for the
\* same email has succeeded; a Login with the right password on a record read
\* unconfirmed ends unauthorized, and no Login but a successful one carries a
\* token.
TokenOnlyAfterVerify(r) ==
    /\ reqs[r].resp.type = "success"
          => \E v \in Reqs("verify") :
                /\ reqs[v].email = reqs[r].email
                /\ Is(reqs[v], "success", "Account confirmed success.")
    /\ reqs[r].resp.token # NoToken => reqs[r].resp.type = "success"
UnconfirmedLoginRefused(r) ==
    (Answers(r) /\ Read(r).id # 0 /\ Read(r).password = Hash(reqs[r].password)
        /\ ~Read(r).isConfirmed)
        => reqs'[r].resp.type = "unauthorized" /\ reqs'[r].resp.token = NoToken
C6_NoTokenBeforeConfirmation ==
    /\ [](\A r \in Reqs("login") : TokenOnlyAfterVerify(r))
    /\ [][\A r \in Reqs("login") : UnconfirmedLoginRefused(r)]_vars
C6_Witness ==
    \E r \in Reqs("login") : reqs[r].resp.type = "success" /\ reqs[r].resp.token # NoToken

\* C7: a VerifyOtp that passes validation is decided on the record read for
\* the email: none gives "Specified email not found."; confirmed gives
\* "Account already confirmed." whatever the otp; unconfirmed with another
\* confirmOtp gives "Otp does not match"; unconfirmed with the submitted otp
\* gives success and issues the update isConfirmed = true, confirmOtp = null.
VerifyExpected(u, otp, resp) ==
    CASE u.id = 0 -> resp = unauthorizedResponse("Specified email not found.")
      [] u.id # 0 /\ u.isConfirmed -> resp = unauthorizedResponse("Account already confirmed.")
      [] u.id # 0 /\ ~u.isConfirmed /\ u.confirmOTP # otp ->
            resp = unauthorizedResponse("Otp does not match")
      [] OTHER -> resp = successResponse("Account confirmed success.")
C7_VerifyPrecedence ==
    [][\A r \in Reqs("verify") :
          /\ (Answers(r) /\ reqs'[r].resp.type # "validationError")
                => /\ VerifyExpected(Read(r), reqs[r].otp, reqs'[r].resp)
                   /\ reqs'[r].resp.type = "success" <=> reqs'[r].pc = "update"
          /\ (reqs[r].pc = "update" /\ reqs'[r].writes > reqs[r].writes)
                => /\ users'[Min(Matching(reqs[r].email))].isConfirmed
                   /\ users'[Min(Matching(reqs[r].email))].confirmOTP = NoOtp]_vars
C7_Witness ==
    /\ \E r \in Reqs("verify") : reqs[r].resp.type = "success" /\ reqs[r].writes = 1
    /\ \E r \in Reqs("verify") : Is(reqs[r], "unauthorized", "Account already confirmed.")

\* C8: a VerifyOtp submitted after a VerifyOtp with the same email and otp
\* was answered with success ends with unauthorized "Account already
\* confirmed.".
VerifiedBefore(q) ==
    \E p \in q.seen : /\ reqs[p].kind = "verify"
                      /\ reqs[p].email = q.email
                      /\ reqs[p].otp = q.otp
                      /\ reqs[p].resp.type = "success"
C8_SecondVerifyAlreadyConfirmed ==
    \A r \in Reqs("verify") :
        (VerifiedBefore(reqs[r]) /\ Responded(reqs[r]))
            => Is(reqs[r], "unauthorized", "Account already confirmed.")

\* C9: a ResendOtp on a confirmed record ends with unauthorized "Account
\* already confirmed." and changes nothing; a ResendOtp answered with success
\* "Confirm otp sent." has stored its new otp as confirmOtp, so that a
\* VerifyOtp submitted afterwards ends with "Otp does not match" when it
\* carries another otp and with success when it carries the new one.
\* p is the resend last answered with success before q was submitted.
ResentBefore(q, p) ==
    /\ p \in q.seen
    /\ reqs[p].kind = "resend" /\ reqs[p].email = q.email
    /\ Is(reqs[p], "success", "Confirm otp sent.")
    /\ \A p2 \in q.seen \ {p} :
          (reqs[p2].kind = "resend" /\ reqs[p2].email = q.email
              /\ reqs[p2].resp.type = "success") => p2 \in reqs[p].seen
ResendOnConfirmed(r) ==
    (reqs[r].pc = "start" /\ reqs'[r].pc # "start" /\ reqs'[r].pc # "hung"
        /\ findOne(reqs[r].email).isConfirmed)
        => /\ reqs'[r].resp = unauthorizedResponse("Account already confirmed.")
           /\ reqs'[r].writes = 0 /\ reqs'[r].sends = 0
           /\ users' = users /\ outbox' = outbox
ResendStores(r) ==
    (reqs[r].pc = "save" /\ reqs'[r].pc = "saved")
        => users'[reqs[r].user.id].confirmOTP = reqs[r].newOtp
VerifyAfterResend(v) ==
    \A p \in Reqs("resend") :
        (Responded(reqs[v]) /\ reqs[v].resp.type # "validationError"
            /\ ResentBefore(reqs[v], p))
            => IF reqs[v].otp = reqs[p].newOtp
               THEN Is(reqs[v], "success", "Account confirmed success.")
               ELSE Is(reqs[v], "unauthorized", "Otp does not match")
C9_ResendReplacesOtp ==
    /\ [](\A v \in Reqs("verify") : VerifyAfterResend(v))
    /\ [][\A r \in Reqs("resend") : ResendOnConfirmed(r) /\ ResendStores(r)]_vars

\* C10: a Register that passes validation makes exactly one mail send
\* attempt and at most one creation, the creation only after the mail was
\* sent; if the send fails it ends with an error and the store holds no
\* record for that email.
PassedValidation(q) == q.pc # "start" /\ q.resp.type # "validationError"
SendThenCreate(q) ==
    /\ q.sends = 1
    /\ q.writes <= 1
    /\ q.created # 0 => \E k \in 1..Len(outbox) : outbox[k] = <<q.email, q.newOtp>>
C10_NoRecordForEmail ==
    \A r \in Reqs("register") :
        PassedValidation(reqs[r])
            => /\ SendThenCreate(reqs[r])
               /\ Is(reqs[r], "error", "mail error") => Matching(reqs[r].email) = {}
\* C10, amended: ... if the send fails it ends with an error and has created
\* no record (a record for that email is another request's).
C10_SendBeforeCreate ==
    \A r \in Reqs("register") :
        PassedValidation(reqs[r])
            => /\ SendThenCreate(reqs[r])
               /\ reqs[r].pc = "done" /\ reqs[r].created = 0 => reqs[r].resp.type = "error"
               /\ Is(reqs[r], "error", "mail error")
                     => reqs[r].created = 0 /\ reqs[r].writes = 0
C10_Witness ==
    /\ \E r \in Reqs("register") : Is(reqs[r], "error", "mail error")
    /\ \E r \in Reqs("register") : reqs[r].resp.type = "success" /\ reqs[r].created # 0

\* C11: the record a Register creates has isConfirmed = false and, as its
\* confirmOtp, the 4-digit code generated in that request, which is the code
\* of the confirmation mail sent for that request.
Creates(r) == reqs[r].created = 0 /\ reqs'[r].created # 0
CreatedWithMailedOtp(r) ==
    Creates(r)
        => /\ reqs'[r].created = Len(users) + 1 /\ Len(users') = Len(users) + 1
           /\ users'[reqs'[r].created].email = reqs[r].email
           /\ ~users'[reqs'[r].created].isConfirmed
           /\ users'[reqs'[r].created].confirmOTP = reqs[r].newOtp
           /\ reqs[r].newOtp # NoOtp /\ reqs[r].newOtp \in 1000..9999
           /\ \E k \in 1..Len(outbox) : outbox[k] = <<reqs[r].email, reqs[r].newOtp>>
           /\ Cardinality({k \in 1..Len(outbox) : outbox[k][1] = reqs[r].email}) >= 1
           /\ reqs[r].sends = 1
C11_CreatedUnconfirmedWithOtp ==
    [][\A r \in Reqs("register") : CreatedWithMailedOtp(r)]_vars
C11_Witness ==
    \E r \in Reqs("register") :
        /\ Is(reqs[r], "success", "Registration Success.")
        /\ reqs[r].created # 0
        /\ users[reqs[r].created].confirmOTP = reqs[r].newOtp

\* C12: every request receives a response whatever its dependencies do: a
\* handler that has stopped running (nothing is pending for it any more)
\* has answered its request.
Stopped(q) == q.pc \in {"done", "hung"}
C12_EveryRequestAnswered ==
    \A r \in 1..Len(reqs) : Stopped(reqs[r]) => Responded(reqs[r])

\* C13: a request that fails input validation ends with the validation-error
\* outcome and has written nothing to the store, sent no mail and issued no
\* token; the step that handles it leaves the store and the outbox as they are.
BodyErrors(q) ==
    CASE q.kind = "register" ->
             RegisterErrors(q.firstName, q.email, q.password, findOne(q.email).id # 0)
      [] q.kind = "login" -> LoginErrors(q.email, q.password)
      [] q.kind = "verify" -> VerifyErrors(q.email, q.otp)
      [] q.kind = "resend" -> ResendErrors(q.email)
\* The errors of the fields alone, whatever the store answers.
FieldErrors(q) == BodyErrors(q) \ {"E-mail already in use"}
FailsValidation(r) == reqs[r].pc = "start" /\ BodyErrors(reqs[r]) # {}
Untouched(q) ==
    /\ q.writes = 0 /\ q.sends = 0 /\ q.created = 0
    /\ q.resp.token = NoToken /\ q.newOtp = NoOtp
RejectedUntouched(r) ==
    FailsValidation(r) /\ reqs'[r] # reqs[r]
        => /\ reqs'[r].resp.type = "validationError"
           /\ FieldErrors(reqs[r]) \subseteq reqs'[r].resp.errors
           /\ reqs'[r].resp.errors # {}
           /\ reqs'[r].nresp = 1 /\ reqs'[r].pc = "done"
           /\ Untouched(reqs'[r])
           /\ users' = users /\ outbox' = outbox
C13_InvalidRequestTouchesNothing ==
    /\ [](\A r \in 1..Len(reqs) : reqs[r].resp.type = "validationError"
                                     => Stopped(reqs[r]) /\ Untouched(reqs[r]))
    /\ [][\A r \in 1..Len(reqs) : RejectedUntouched(r)]_vars
C13_Witness ==
    /\ \E r \in Reqs("register") :
           /\ reqs[r].resp.type = "validationError"
           /\ "Password must be 6 characters or greater." \in reqs[r].resp.errors
    /\ \E r \in Reqs("verify") :
           /\ reqs[r].resp.type = "validationError"
           /\ "OTP must be specified." \in reqs[r].resp.errors
    /\ users # <<>>

\* C14: Register(valid body, new email), Login(same credentials),
\* VerifyOtp(email, the otp stored at registration), Login again, each
\* submitted after the previous one was answered and every dependency
\* succeeding, are answered with: registration success, unauthorized
\* (account not confirmed), verification success, login success with a token.
Sequential == \A r \in 1..Len(reqs) : reqs[r].seen = 1..(r - 1)
RegisterLoginVerifyLogin ==
    /\ Len(reqs) = 4
    /\ <<reqs[1].kind, reqs[2].kind, reqs[3].kind, reqs[4].kind>>
           = <<"register", "login", "verify", "login">>
    /\ Sequential
    /\ reqs[3].otp = reqs[1].newOtp
    /\ \A r \in 1..4 : Stopped(reqs[r])
ScenarioOutcomes ==
    /\ Is(reqs[1], "success", "Registration Success.")
    /\ Is(reqs[2], "unauthorized", "Account is not confirmed. Please confirm your account.")
    /\ Is(reqs[3], "success", "Account confirmed success.")
    /\ Is(reqs[4], "success", "Login Success.")
    /\ reqs[4].resp.token # NoToken
    /\ reqs[2].resp.token = NoToken
C14_RegisterLoginVerifyLogin == RegisterLoginVerifyLogin => ScenarioOutcomes

\* C15: every request receives at most one response: no handler calls a
\* response function a second time for its request, also not when the
\* update of a verification fails after the success response was sent.
C15_AtMostOneResponse == \A r \in 1..Len(reqs) : reqs[r].nresp <= 1

\* C16: a resend whose mail send fails leaves the user record as it was;
\* a resend writes confirmOtp only after its mail was sent, and what it
\* writes is the code of that mail.
Mailed(q) == \E k \in 1..Len(outbox) : outbox[k] = <<q.email, q.newOtp>>
ResendWrites(r) == reqs'[r].writes > reqs[r].writes
MailFails(r) == reqs[r].pc = "mail" /\ reqs'[r].pc = "hung"
ResendWritesAfterMail(r) ==
    /\ MailFails(r) => users' = users /\ reqs'[r].writes = 0
    /\ ResendWrites(r) => /\ reqs[r].pc = "save" /\ Mailed(reqs[r])
                          /\ users'[reqs[r].user.id].confirmOTP = reqs[r].newOtp
C16_ResendWritesAfterMail ==
    /\ [](\A r \in Reqs("resend") : reqs[r].pc = "hung" => reqs[r].writes = 0)
    /\ [][\A r \in Reqs("resend") : ResendWritesAfterMail(r)]_vars
C16_Witness ==
    \E r \in Reqs("resend") :
        /\ reqs[r].pc = "hung" /\ reqs[r].sends = 1
        /\ \E i \in 1..Len(users) :
               /\ users[i].email = reqs[r].email
               /\ users[i].confirmOTP # NoOtp /\ ~users[i].isConfirmed

\* C17: no step of a handler removes a user record or changes the status,
\* password hash, email or name of an existing record: of an existing
\* record a handler changes isConfirmed and confirmOtp only.
Kept(u) == [firstName |-> u.firstName, email |-> u.email,
            password |-> u.password, status |-> u.status]
HandlerStep == adminOps' = adminOps
C17_HandlersKeepIdentity ==
    [][HandlerStep => /\ Len(users') >= Len(users)
                      /\ \A i \in 1..Len(users) : Kept(users'[i]) = Kept(users[i])]_vars
C17_Witness ==
    /\ \E r \in Reqs("resend") : reqs[r].writes = 1
    /\ \E r \in Reqs("verify") : reqs[r].writes = 1
    /\ users # <<>> /\ users[1].isConfirmed /\ users[1].password = Hash("secret1")

\* C18: Login never writes to the store; a VerifyOtp or ResendOtp that ends
\* unauthorized (unknown email, account already confirmed, otp mismatch) has
\* written nothing to the store and sent no mail.
Unauthorized(q) == q.kind \in {"verify", "resend"} /\ q.resp.type = "unauthorized"
ReadOnly(r) ==
    /\ reqs[r].kind = "login" /\ reqs'[r] # reqs[r] => users' = users /\ outbox' = outbox
    /\ Unauthorized(reqs'[r]) /\ reqs'[r] # reqs[r] => users' = users /\ outbox' = outbox
C18_RefusedRequestsWriteNothing ==
    /\ [](\A r \in 1..Len(reqs) :
             reqs[r].kind = "login" \/ Unauthorized(reqs[r])
                 => reqs[r].writes = 0 /\ reqs[r].sends = 0 /\ reqs[r].created = 0)
    /\ [][\A r \in 1..Len(reqs) : ReadOnly(r)]_vars
C18_Witness ==
    /\ \E r \in Reqs("resend") : Is(reqs[r], "unauthorized", "Account already confirmed.")
    /\ \E r \in Reqs("verify") : reqs[r].writes = 1

\* C19: once every request has completed, the confirmOtp stored for an
\* unconfirmed user is the code of the most recent confirmation mail sent to
\* that user's address (stated for the addresses that have one record).
MailsTo(e) == {k \in 1..Len(outbox) : outbox[k][1] = e}
Max(S) == CHOOSE x \in S : \A y \in S : y <= x
LastOtpMailed(e) == outbox[Max(MailsTo(e))][2]
Quiescent == \A r \in 1..Len(reqs) : Stopped(reqs[r])
C19_StoredOtpIsLastMailed ==
    Quiescent
        => \A i \in 1..Len(users) :
               /\ ~users[i].isConfirmed
               /\ Cardinality(Matching(users[i].email)) = 1
               /\ MailsTo(users[i].email) # {}
               => users[i].confirmOTP = LastOtpMailed(users[i].email)

====
